---- MODULE Spec2Model ----
(***************************************************************************)
(* Geometry synthesis pipeline of the campus model:                        *)
(*   data_processing/create_3d_models.py   extrude_polygon,                *)
(*                                         process_buildings_to_3d         *)
(*   data_processing/terrain_processor.py  create_terrain_mesh             *)
(*   enrich_buildings.py                   apply_metadata, enrich          *)
(*   data_acquisition/fetch_overture_buildings.py  apply_manual_meta,      *)
(*                                         fetch_buildings                 *)
(*   run_data_pipeline.py                  run_script, main                *)
(*                                                                         *)
(* Python values are modelled as follows.  An optional value (None or a    *)
(* value) is a sequence of length 0 or 1.  Floats that the code only       *)
(* copies, compares with 0 or multiplies by integers are integers; floats  *)
(* produced by a true division are exact rationals <<num, den>>.           *)
(***************************************************************************)
EXTENDS Integers, Sequences, FiniteSets, TLC

VARIABLES
    m_fn,           \* which pure function the mesh specification applies
    m_polygon,      \* extrude_polygon: argument polygon
    m_height,       \* extrude_polygon: argument height
    m_grid,         \* create_terrain_mesh: argument elevation_data
    m_result,       \* value returned (None == <<>>)
    m_pc,           \* "call", "returned" or "raised"
    buildings_gdf,  \* process_buildings_to_3d: argument, a sequence of rows
    buildings_3d,   \* process_buildings_to_3d: the list being built
    row,            \* position of the iterrows loop (1-based)
    calls,          \* extrude_polygon calls made so far, as <<row, part>>
    origin,         \* for each record of buildings_3d, the <<row, part>> it came from
    pc,             \* "loop", "done" or "raised"
    o_impl,         \* which implementation of the manual override pass runs
    o_row,          \* the row handed to the pass
    o_out,          \* the row the pass returns
    o_again,        \* the row the pass returns when applied to o_out
    o_pc,           \* "call", "returned" or "again"
    r_impl,         \* which reconciler runs: "fetch_buildings" or "enrich"
    r_source,       \* the OSM fetch: "ok", "no_names" or "raises"
    r_primary,      \* the primary records the run started from
    r_osm,          \* osm_gdf: the secondary features, in index order
    r_rows,         \* output_gdf / buildings_gdf: the frame being reconciled
    r_output,       \* the saved file (None while nothing is saved)
    r_first,        \* the file saved by the first run, once a second run started
    r_run,          \* 1, or 2 while the reconciler runs again on its output
    r_pc,           \* "start", "joined", "overridden", "saved", "returned", "failed"
    n_impl,         \* which get_best_name is applied
    n_row,          \* the joined row handed to get_best_name
    n_name,         \* the name it returns
    n_pc,           \* "call" or "returned"
    p_step,         \* run_data_pipeline.main: position in steps of the next step
    p_ok,           \* main: the counter ok
    p_runs,         \* the scripts run so far, each with the exit code it gave
    p_log,          \* what has been printed so far
    p_report,       \* the summary main printed (None before)
    p_pc            \* "loop" or "done"

vars == <<m_fn, m_polygon, m_height, m_grid, m_result, m_pc,
          buildings_gdf, buildings_3d, row, calls, origin, pc,
          o_impl, o_row, o_out, o_again, o_pc,
          r_impl, r_source, r_primary, r_osm, r_rows, r_output, r_first, r_run, r_pc,
          n_impl, n_row, n_name, n_pc,
          p_step, p_ok, p_runs, p_log, p_report, p_pc>>

mesh_vars == <<m_fn, m_polygon, m_height, m_grid, m_result, m_pc>>
bld_vars == <<buildings_gdf, buildings_3d, row, calls, origin, pc>>
ovr_vars == <<o_impl, o_row, o_out, o_again, o_pc>>
rec_vars == <<r_impl, r_source, r_primary, r_osm, r_rows, r_output, r_first, r_run, r_pc>>
name_vars == <<n_impl, n_row, n_name, n_pc>>
pipe_vars == <<p_step, p_ok, p_runs, p_log, p_report, p_pc>>

(***************************************************************************)
(* Bounds of the model                                                     *)
(***************************************************************************)
MaxRing == 4        \* ring vertices before the closing vertex is appended
MaxRows == 2        \* elevation grid rows
MaxCols == 3        \* elevation grid columns
MaxBuildings == 2   \* rows of buildings_gdf
MaxParts == 2       \* sub-polygons of a MultiPolygon

(***************************************************************************)
(* Python helpers                                                          *)
(***************************************************************************)
None == <<>>
Some(v) == <<v>>

Range(n) == 0 .. (n - 1)

Last(s) == s[Len(s)]

RECURSIVE Concat(_, _, _)
\* the list [f[lo], ..., f[hi]] flattened, f[i] being a sequence
Concat(f, lo, hi) == IF lo > hi THEN <<>> ELSE f[lo] \o Concat(f, lo + 1, hi)

Abs(n) == IF n < 0 THEN -n ELSE n

RECURSIVE GCD(_, _)
GCD(a, b) == IF b = 0 THEN a ELSE GCD(b, a % b)

\* exact rationals <<num, den>>, den > 0, in lowest terms
Rat(n, d) ==
    LET s == IF d < 0 THEN -1 ELSE 1
        g == GCD(Abs(n), Abs(d))
    IN  <<(s * n) \div g, (s * d) \div g>>
RInt(n) == <<n, 1>>
RAdd(a, b) == Rat(a[1] * b[2] + b[1] * a[2], a[2] * b[2])
RSub(a, b) == Rat(a[1] * b[2] - b[1] * a[2], a[2] * b[2])
RMul(a, b) == Rat(a[1] * b[1], a[2] * b[2])
RDiv(a, b) == Rat(a[1] * b[2], a[2] * b[1])
RLess(a, b) == a[1] * b[2] < b[1] * a[2]

Digit(d) ==
    CASE d = 0 -> "0" [] d = 1 -> "1" [] d = 2 -> "2" [] d = 3 -> "3"
      [] d = 4 -> "4" [] d = 5 -> "5" [] d = 6 -> "6" [] d = 7 -> "7"
      [] d = 8 -> "8" [] d = 9 -> "9"

RECURSIVE str(_)
\* str() of a non-negative integer index label
str(n) == IF n < 10 THEN Digit(n) ELSE str(n \div 10) \o Digit(n % 10)

(***************************************************************************)
(* Coordinate projection                                                   *)
(***************************************************************************)
lat_to_m == 111000

\* 111000 * cos(radians(lat_center)), to the nearest metre per degree, for
\* the latitudes of the model
lon_to_m(lat_center) ==
    CASE lat_center = 0 -> 111000
      [] lat_center = 33 -> 93092
      [] lat_center = 60 -> 55500

(***************************************************************************)
(* Floats that may be NaN (heights), create_3d_models.py                   *)
(***************************************************************************)
Float(v) == [nan |-> FALSE, v |-> v]
NaN == [nan |-> TRUE, v |-> 0]
\* x <= 0 and x > 0 as Python evaluates them: every comparison with NaN is False
LeZero(x) == ~x.nan /\ x.v <= 0
GtZero(x) == ~x.nan /\ x.v > 0

(***************************************************************************)
(* Geometries (shapely).  coords is polygon.exterior.coords, which shapely *)
(* keeps closed (first == last); centroid is shapely's centroid property.  *)
(***************************************************************************)
Geometry(t, e, c, g, ctr) ==
    [geom_type |-> t, is_empty |-> e, coords |-> c, geoms |-> g, centroid |-> ctr]

(***************************************************************************)
(* extrude_polygon, create_3d_models.py:18-94                              *)
(***************************************************************************)
\* the closing vertex kept: what lines 37-39 would do without the test
remove_closing_kept(coords) == coords

\* lines 37-39: remove duplicate last point if present
remove_closing(coords) ==
    IF coords[1] = coords[Len(coords)]
    THEN SubSeq(coords, 1, Len(coords) - 1)
    ELSE coords

\* the ring walked from its last point to its first
ring_vertices_reversed(coords, lat_center, z) ==
    [k \in 1 .. Len(coords) |->
        <<(coords[Len(coords) + 1 - k][1] - coords[1][1]) * lon_to_m(lat_center),
          (coords[Len(coords) + 1 - k][2] - coords[1][2]) * lat_to_m,
          z>>]

\* the ring in metres from longitude 0 and latitude 0, the first point not
\* subtracted
ring_vertices_absolute(coords, lat_center, z) ==
    [k \in 1 .. Len(coords) |->
        <<coords[k][1] * lon_to_m(lat_center),
          coords[k][2] * lat_to_m,
          z>>]

\* lines 51-58 (z = 0) and 60-67 (z = height)
ring_vertices(coords, lat_center, z) ==
    [k \in 1 .. Len(coords) |->
        <<(coords[k][1] - coords[1][1]) * lon_to_m(lat_center),
          (coords[k][2] - coords[1][2]) * lat_to_m,
          z>>]

\* the walls without the wrap-around of the last edge (next_i = i + 1)
wall_faces_nowrap(num_points) ==
    Concat([i \in Range(num_points) |->
               LET next_i == i + 1
               IN  << <<i, next_i, num_points + i>>,
                      <<next_i, num_points + next_i, num_points + i>> >>],
           0, num_points - 1)

\* lines 69-76: two triangles per wall quad
wall_faces(num_points) ==
    Concat([i \in Range(num_points) |->
               LET next_i == (i + 1) % num_points
               IN  << <<i, next_i, num_points + i>>,
                      <<next_i, num_points + next_i, num_points + i>> >>],
           0, num_points - 1)

\* lines 78-81: fan from vertex 0, i in range(1, num_points - 1)
bottom_faces(num_points) ==
    IF num_points > 2
    THEN [i \in 1 .. (num_points - 2) |-> <<0, i, i + 1>>]
    ELSE <<>>

\* the top fan wound like the bottom fan
top_faces_unreversed(num_points) ==
    IF num_points > 2
    THEN LET base == num_points
         IN  [i \in 1 .. (num_points - 2) |-> <<base, base + i, base + i + 1>>]
    ELSE <<>>

\* lines 83-87: fan from the top-ring base, reversed winding
top_faces(num_points) ==
    IF num_points > 2
    THEN LET base == num_points
         IN  [i \in 1 .. (num_points - 2) |-> <<base, base + i + 1, base + i>>]
    ELSE <<>>

\* polygon is None or Some(geometry); the result is None or Some(mesh)
extrude_polygon(polygon, height) ==
    IF polygon = None \/ polygon[1].is_empty
    THEN None
    ELSE IF Len(polygon[1].coords) < 3
    THEN None
    ELSE LET coords == remove_closing(polygon[1].coords)
             num_points == Len(coords)
             lat_center == polygon[1].centroid[2]
             vertices == ring_vertices(coords, lat_center, Float(0))
                            \o ring_vertices(coords, lat_center, height)
             faces == wall_faces(num_points) \o bottom_faces(num_points)
                         \o top_faces(num_points)
         IN  Some([vertices |-> vertices,
                   faces |-> faces,
                   num_vertices |-> Len(vertices),
                   num_faces |-> Len(faces)])

(***************************************************************************)
(* create_terrain_mesh, terrain_processor.py:9-81                          *)
(***************************************************************************)
\* the range floored at 1: max(max_elev - min_elev, 1)
elev_range_floor(elevation_data) ==
    LET min_elev == elevation_data.min_elevation
        max_elev == elevation_data.max_elevation
    IN  IF RLess(RInt(1), RSub(max_elev, min_elev)) THEN RSub(max_elev, min_elev)
        ELSE RInt(1)

\* line 41
elev_range(elevation_data) ==
    LET min_elev == elevation_data.min_elevation
        max_elev == elevation_data.max_elevation
    IN  IF RLess(min_elev, max_elev) THEN RSub(max_elev, min_elev) ELSE RInt(1)

\* the cell with z taken from the elevation itself, min_elev not subtracted
terrain_cell_unshifted(elevation_data, i, j) ==
    LET bounds == elevation_data.bounds
        height == elevation_data.resolution.height
        width == elevation_data.resolution.width
        lon_range == bounds.east - bounds.west
        lat_range == bounds.north - bounds.south
        lat_center == Rat(bounds.north + bounds.south, 2)
        fj == Rat(j, width - 1)
        fi == Rat(i, height - 1)
        lon == RAdd(RInt(bounds.west), RMul(fj, RInt(lon_range)))
        lat == RAdd(RInt(bounds.south), RMul(fi, RInt(lat_range)))
        x == RMul(RSub(lon, RInt(bounds.west)), RInt(lon_to_m(lat_center[1])))
        y == RMul(RSub(lat, RInt(bounds.south)), RInt(lat_to_m))
        z == RMul(RDiv(elevation_data.elevation[i + 1][j + 1],
                       elev_range(elevation_data)),
                  RInt(10))
    IN  [vertex |-> <<x, y, z>>, uv |-> <<fj, RSub(RInt(1), fi)>>]

\* lines 47-56: the vertex and the uv of grid cell (i, j); both divide by
\* width - 1 and height - 1
terrain_cell(elevation_data, i, j) ==
    LET bounds == elevation_data.bounds
        height == elevation_data.resolution.height
        width == elevation_data.resolution.width
        lon_range == bounds.east - bounds.west
        lat_range == bounds.north - bounds.south
        lat_center == Rat(bounds.north + bounds.south, 2)
        fj == Rat(j, width - 1)
        fi == Rat(i, height - 1)
        lon == RAdd(RInt(bounds.west), RMul(fj, RInt(lon_range)))
        lat == RAdd(RInt(bounds.south), RMul(fi, RInt(lat_range)))
        x == RMul(RSub(lon, RInt(bounds.west)), RInt(lon_to_m(lat_center[1])))
        y == RMul(RSub(lat, RInt(bounds.south)), RInt(lat_to_m))
        z == RMul(RDiv(RSub(elevation_data.elevation[i + 1][j + 1],
                            elevation_data.min_elevation),
                       elev_range(elevation_data)),
                  RInt(10))
    IN  [vertex |-> <<x, y, z>>, uv |-> <<fj, RSub(RInt(1), fi)>>]

\* the indices computed with the stride of the quads, width - 1, in place of
\* the stride of the vertices, width
terrain_faces_stride(height, width) ==
    Concat([q \in Range((height - 1) * (width - 1)) |->
               LET i == q \div (width - 1)
                   j == q % (width - 1)
                   idx == i * (width - 1) + j
                   idx_right == i * (width - 1) + (j + 1)
                   idx_bottom == (i + 1) * (width - 1) + j
                   idx_bottom_right == (i + 1) * (width - 1) + (j + 1)
               IN  << <<idx, idx_right, idx_bottom>>,
                      <<idx_right, idx_bottom_right, idx_bottom>> >>],
           0, (height - 1) * (width - 1) - 1)

\* one triangle per quad: the second append of the face loop left out
terrain_faces_single(height, width) ==
    Concat([q \in Range((height - 1) * (width - 1)) |->
               LET i == q \div (width - 1)
                   j == q % (width - 1)
                   idx == i * width + j
                   idx_right == i * width + (j + 1)
                   idx_bottom == (i + 1) * width + j
               IN  << <<idx, idx_right, idx_bottom>> >>],
           0, (height - 1) * (width - 1) - 1)

\* lines 59-71: two triangles per quad
terrain_faces(height, width) ==
    Concat([q \in Range((height - 1) * (width - 1)) |->
               LET i == q \div (width - 1)
                   j == q % (width - 1)
                   idx == i * width + j
                   idx_right == i * width + (j + 1)
                   idx_bottom == (i + 1) * width + j
                   idx_bottom_right == (i + 1) * width + (j + 1)
               IN  << <<idx, idx_right, idx_bottom>>,
                      <<idx_right, idx_bottom_right, idx_bottom>> >>],
           0, (height - 1) * (width - 1) - 1)

\* the first vertex computed divides by width - 1 and then by height - 1:
\* ZeroDivisionError as soon as the vertex loops run with one of them zero
terrain_raises(elevation_data) ==
    LET height == elevation_data.resolution.height
        width == elevation_data.resolution.width
    IN  height >= 1 /\ width >= 1 /\ (width = 1 \/ height = 1)

create_terrain_mesh(elevation_data) ==
    LET height == elevation_data.resolution.height
        width == elevation_data.resolution.width
        cells == [k \in 1 .. (height * width) |->
                     terrain_cell(elevation_data, (k - 1) \div width, (k - 1) % width)]
        faces == IF height >= 2 /\ width >= 2
                 THEN terrain_faces(height, width)
                 ELSE <<>>
    IN  [vertices |-> [k \in 1 .. (height * width) |-> cells[k].vertex],
         faces |-> faces,
         uvs |-> [k \in 1 .. (height * width) |-> cells[k].uv],
         bounds |-> elevation_data.bounds,
         resolution |-> elevation_data.resolution,
         min_elevation |-> elevation_data.min_elevation,
         max_elevation |-> elevation_data.max_elevation]

(***************************************************************************)
(* process_buildings_to_3d, create_3d_models.py:96-143                     *)
(*                                                                         *)
(* A row of buildings_gdf is [idx, geometry, height, name, building_type,  *)
(* purpose, color]: idx is the index label iterrows yields, the columns    *)
(* name .. color are None when the frame has no such column.  height is    *)
(* [k, f]: k = "absent" (no column), "none" (None) or "float" (f).         *)
(***************************************************************************)
HeightAbsent == [k |-> "absent", f |-> Float(0)]
HeightNone == [k |-> "none", f |-> Float(0)]
HeightOf(f) == [k |-> "float", f |-> f]

default_height == 15

\* building.get(key, default)
get(column, default) == IF column = None THEN default ELSE column[1]

\* lines 112-114
row_height(building) ==
    LET height == IF building.height.k = "absent"
                  THEN HeightOf(Float(default_height))
                  ELSE building.height
    IN  IF height.k = "none" \/ LeZero(height.f)
        THEN Float(default_height)
        ELSE height.f

\* the id of a Polygon building given a part suffix as well
polygon_id_suffixed(idx) == str(idx) \o "_0"

\* line 120
polygon_id(idx) == str(idx)

\* the suffix not counted: every part of a building numbered 0
multi_id_uncounted(idx, models) == str(idx) \o "_" \o str(0)

\* the id made of the count alone, the id of the building left out
multi_id_unprefixed(idx, models) == str(Len(models))

\* line 134
multi_id(idx, models) == str(idx) \o "_" \o str(Len(models))

\* the centroid with latitude and longitude exchanged
center_of_swapped(poly) == <<poly.centroid[2], poly.centroid[1]>>

\* lines 126 and 140
center_of(poly) == <<poly.centroid[1], poly.centroid[2]>>

\* lines 120-126 and 134-140: the keys added to the dictionary extrude_polygon returned
make_record(model, id, building, height, poly) ==
    [vertices |-> model.vertices,
     faces |-> model.faces,
     num_vertices |-> model.num_vertices,
     num_faces |-> model.num_faces,
     id |-> id,
     name |-> get(building.name, "Building " \o str(building.idx)),
     type |-> get(building.building_type, "unknown"),
     purpose |-> get(building.purpose, "Unknown"),
     height |-> height,
     color |-> get(building.color, "[0.7, 0.7, 0.8]"),
     center |-> center_of(poly)]

RECURSIVE geoms_loop(_, _, _, _)
\* lines 131-141: the loop over geometry.geoms from sub-polygon k on; st is
\* [models, calls, origin] as they stand before sub-polygon k
geoms_loop(building, r, k, st) ==
    IF k > Len(building.geometry.geoms)
    THEN st
    ELSE LET poly == building.geometry.geoms[k]
             height == row_height(building)
             model == extrude_polygon(Some(poly), height)
             called == Append(st.calls, <<r, k>>)
         IN  IF model # None
             THEN geoms_loop(building, r, k + 1,
                     [models |-> Append(st.models,
                                    make_record(model[1], multi_id(building.idx, st.models),
                                                building, height, poly)),
                      calls |-> called,
                      origin |-> Append(st.origin, <<r, k>>)])
             ELSE geoms_loop(building, r, k + 1,
                     [models |-> st.models, calls |-> called, origin |-> st.origin])

(***************************************************************************)
(* The manual override pass: enrich_buildings.py:88-162 (apply_metadata)   *)
(* and fetch_overture_buildings.py:121-185 (apply_manual_meta).            *)
(*                                                                         *)
(* Names and keys are sequences of characters.  A row is [display_name,    *)
(* category, purpose, height, color], each None (null, NaN or no such      *)
(* column) or Some(value); category is the column building_type of         *)
(* enrich_buildings and the column class of fetch_overture_buildings,      *)
(* purpose the columns purpose and subtype.                                *)
(***************************************************************************)
UpperCase == <<"A", "B", "C", "D", "E", "F", "G", "H", "I", "J", "K", "L", "M", "N", "O", "P", "Q", "R", "S", "T", "U", "V", "W", "X", "Y", "Z">>
LowerCase == <<"a", "b", "c", "d", "e", "f", "g", "h", "i", "j", "k", "l", "m", "n", "o", "p", "q", "r", "s", "t", "u", "v", "w", "x", "y", "z">>

\* str.lower() on one character
lower_char(c) ==
    IF \E i \in 1 .. Len(UpperCase) : UpperCase[i] = c
    THEN LowerCase[CHOOSE i \in 1 .. Len(UpperCase) : UpperCase[i] = c]
    ELSE c

\* str.lower()
lower(t) == [i \in 1 .. Len(t) |-> lower_char(t[i])]

\* a in b, for strings
contains(a, b) ==
    \E i \in 0 .. (Len(b) - Len(a)) : SubSeq(b, i + 1, i + Len(a)) = a

\* the table with the curated name of Russell Hall cut down to "Hall", a name
\* the key of the earlier entry Shelby Hall contains
building_metadata_short ==
    <<
       [key |-> <<"B", "r", "y", "a", "n", "t", "-", "D", "e", "n", "n", "y", " ", "S", "t", "a", "d", "i", "u", "m">>,
        \* "Bryant-Denny Stadium"
        name |-> <<"B", "r", "y", "a", "n", "t", "-", "D", "e", "n", "n", "y", " ", "S", "t", "a", "d", "i", "u", "m">>,
        type |-> Some("stadium"), purpose |-> Some("Football Stadium"), height |-> Some(45),
        color |-> Some("#e63946")],
       [key |-> <<"G", "o", "r", "g", "a", "s", " ", "L", "i", "b", "r", "a", "r", "y">>,
        \* "Amelia Gayle Gorgas Library"
        name |-> <<"A", "m", "e", "l", "i", "a", " ", "G", "a", "y", "l", "e", " ", "G", "o", "r", "g", "a", "s", " ", "L", "i", "b", "r", "a", "r", "y">>,
        type |-> Some("library"), purpose |-> Some("Main Library"), height |-> Some(30),
        color |-> Some("#a8dadc")],
       [key |-> <<"F", "e", "r", "g", "u", "s", "o", "n", " ", "C", "e", "n", "t", "e", "r">>,
        \* "Ferguson Student Center"
        name |-> <<"F", "e", "r", "g", "u", "s", "o", "n", " ", "S", "t", "u", "d", "e", "n", "t", " ", "C", "e", "n", "t", "e", "r">>,
        type |-> Some("student_center"), purpose |-> Some("Student Services"), height |-> Some(25),
        color |-> Some("#f1faee")],
       [key |-> <<"S", "h", "e", "l", "b", "y", " ", "H", "a", "l", "l">>,
        \* "Shelby Hall"
        name |-> <<"S", "h", "e", "l", "b", "y", " ", "H", "a", "l", "l">>,
        type |-> Some("academic"), purpose |-> Some("Engineering & Science"), height |-> Some(28),
        color |-> Some("#457b9d")],
       [key |-> <<"C", "o", "l", "e", "m", "a", "n", " ", "C", "o", "l", "i", "s", "e", "u", "m">>,
        \* "Coleman Coliseum"
        name |-> <<"C", "o", "l", "e", "m", "a", "n", " ", "C", "o", "l", "i", "s", "e", "u", "m">>,
        type |-> Some("arena"), purpose |-> Some("Basketball/Gymnastics"), height |-> Some(22),
        color |-> Some("#1d3557")],
       [key |-> <<"R", "u", "s", "s", "e", "l", "l", " ", "H", "a", "l", "l">>,
        \* "Hall"
        name |-> <<"H", "a", "l", "l">>,
        type |-> Some("academic"), purpose |-> Some("Nursing/Health"), height |-> Some(20),
        color |-> None],
       [key |-> <<"G", "a", "l", "l", "a", "l", "e", "e", " ", "H", "a", "l", "l">>,
        \* "Gallalee Hall"
        name |-> <<"G", "a", "l", "l", "a", "l", "e", "e", " ", "H", "a", "l", "l">>,
        type |-> Some("academic"), purpose |-> Some("Physics"), height |-> Some(18),
        color |-> None]
    >>

\* the table of both files, in declaration order (the dictionary of
\* enrich_buildings.py also holds a capacity, which nothing reads)
building_metadata ==
    <<
       [key |-> <<"B", "r", "y", "a", "n", "t", "-", "D", "e", "n", "n", "y", " ", "S", "t", "a", "d", "i", "u", "m">>,
        \* "Bryant-Denny Stadium"
        name |-> <<"B", "r", "y", "a", "n", "t", "-", "D", "e", "n", "n", "y", " ", "S", "t", "a", "d", "i", "u", "m">>,
        type |-> Some("stadium"), purpose |-> Some("Football Stadium"), height |-> Some(45),
        color |-> Some("#e63946")],
       [key |-> <<"G", "o", "r", "g", "a", "s", " ", "L", "i", "b", "r", "a", "r", "y">>,
        \* "Amelia Gayle Gorgas Library"
        name |-> <<"A", "m", "e", "l", "i", "a", " ", "G", "a", "y", "l", "e", " ", "G", "o", "r", "g", "a", "s", " ", "L", "i", "b", "r", "a", "r", "y">>,
        type |-> Some("library"), purpose |-> Some("Main Library"), height |-> Some(30),
        color |-> Some("#a8dadc")],
       [key |-> <<"F", "e", "r", "g", "u", "s", "o", "n", " ", "C", "e", "n", "t", "e", "r">>,
        \* "Ferguson Student Center"
        name |-> <<"F", "e", "r", "g", "u", "s", "o", "n", " ", "S", "t", "u", "d", "e", "n", "t", " ", "C", "e", "n", "t", "e", "r">>,
        type |-> Some("student_center"), purpose |-> Some("Student Services"), height |-> Some(25),
        color |-> Some("#f1faee")],
       [key |-> <<"S", "h", "e", "l", "b", "y", " ", "H", "a", "l", "l">>,
        \* "Shelby Hall"
        name |-> <<"S", "h", "e", "l", "b", "y", " ", "H", "a", "l", "l">>,
        type |-> Some("academic"), purpose |-> Some("Engineering & Science"), height |-> Some(28),
        color |-> Some("#457b9d")],
       [key |-> <<"C", "o", "l", "e", "m", "a", "n", " ", "C", "o", "l", "i", "s", "e", "u", "m">>,
        \* "Coleman Coliseum"
        name |-> <<"C", "o", "l", "e", "m", "a", "n", " ", "C", "o", "l", "i", "s", "e", "u", "m">>,
        type |-> Some("arena"), purpose |-> Some("Basketball/Gymnastics"), height |-> Some(22),
        color |-> Some("#1d3557")],
       [key |-> <<"R", "u", "s", "s", "e", "l", "l", " ", "H", "a", "l", "l">>,
        \* "Russell Hall"
        name |-> <<"R", "u", "s", "s", "e", "l", "l", " ", "H", "a", "l", "l">>,
        type |-> Some("academic"), purpose |-> Some("Nursing/Health"), height |-> Some(20),
        color |-> None],
       [key |-> <<"G", "a", "l", "l", "a", "l", "e", "e", " ", "H", "a", "l", "l">>,
        \* "Gallalee Hall"
        name |-> <<"G", "a", "l", "l", "a", "l", "e", "e", " ", "H", "a", "l", "l">>,
        type |-> Some("academic"), purpose |-> Some("Physics"), height |-> Some(18),
        color |-> None]
    >>

\* the test of enrich_buildings.py:144 and fetch_overture_buildings.py:176
key_matches(key, name) ==
    contains(lower(key), lower(name)) \/ contains(lower(name), lower(key))

RECURSIVE last_match(_, _)
\* the last entry from position i on whose key matches name, 0 if none: the
\* loop without its return
last_match(name, i) ==
    IF i > Len(building_metadata) THEN 0
    ELSE LET later == last_match(name, i + 1)
         IN  IF later # 0 THEN later
             ELSE IF key_matches(building_metadata[i].key, name) THEN i
             ELSE 0

RECURSIVE first_match(_, _)
\* the first entry from position i on whose key matches name, 0 if none: the
\* for loop returns at the first match
first_match(name, i) ==
    IF i > Len(building_metadata) THEN 0
    ELSE IF key_matches(building_metadata[i].key, name) THEN i
    ELSE first_match(name, i + 1)

default_placeholder == 8

\* enrich_buildings.py:139-159
apply_metadata(r) ==
    IF r.display_name = None THEN r
    ELSE LET i == first_match(r.display_name[1], 1)
         IN  IF i = 0 THEN r
             ELSE LET data == building_metadata[i]
                  IN  [display_name |-> Some(data.name),
                       category |-> IF data.type # None THEN data.type ELSE r.category,
                       purpose |-> IF data.purpose # None THEN data.purpose ELSE r.purpose,
                       height |-> IF r.height = None THEN data.height ELSE r.height,
                       color |-> IF data.color # None THEN data.color ELSE r.color]

\* the pass with the height of the entry written whatever the row holds
apply_manual_meta_overwrite(r) ==
    IF r.display_name = None THEN r
    ELSE LET i == first_match(r.display_name[1], 1)
         IN  IF i = 0 THEN r
             ELSE LET data == building_metadata[i]
                  IN  [display_name |-> Some(data.name),
                       category |-> IF data.type # None THEN data.type ELSE r.category,
                       purpose |-> IF data.purpose # None THEN data.purpose ELSE r.purpose,
                       height |-> IF data.height # None THEN data.height ELSE r.height,
                       color |-> r.color]

\* fetch_overture_buildings.py:171-183
apply_manual_meta(r) ==
    IF r.display_name = None THEN r
    ELSE LET i == first_match(r.display_name[1], 1)
         IN  IF i = 0 THEN r
             ELSE LET data == building_metadata[i]
                  IN  [display_name |-> Some(data.name),
                       category |-> IF data.type # None THEN data.type ELSE r.category,
                       purpose |-> IF data.purpose # None THEN data.purpose ELSE r.purpose,
                       height |-> IF r.height = None \/ r.height = Some(default_placeholder)
                                  THEN (IF data.height # None THEN data.height ELSE r.height)
                                  ELSE r.height,
                       color |-> r.color]

(***************************************************************************)
(* Inputs of the model                                                     *)
(***************************************************************************)
Points == {<<0, 0>>, <<1, 0>>, <<1, 60>>, <<0, 60>>}
Centroids == {<<1, 33>>, <<0, 60>>}

\* exterior.coords of a ring given by its vertices: shapely closes the ring
closed(ring) == ring \o <<ring[1]>>

RingsOfLen(n) == [1 .. n -> Points]

Polygon(coords, ctr) == Geometry("Polygon", FALSE, coords, <<>>, ctr)
EmptyPolygon == Geometry("Polygon", TRUE, <<>>, <<>>, <<0, 0>>)

MeshHeights == {Float(10), NaN}

GridBounds ==
    {[west |-> 0, east |-> 2, south |-> 32, north |-> 34],
     [west |-> 1, east |-> 2, south |-> 59, north |-> 61]}

\* <<min_elevation, max_elevation>>
MinMax ==
    {<<RInt(0), RInt(0)>>, <<RInt(2), RInt(2)>>, <<RInt(0), Rat(1, 2)>>,
     <<RInt(1), RInt(3)>>}

\* a grid whose elevation array has the shape of resolution and whose
\* min_elevation / max_elevation bracket the cells: every cell is at
\* min_elevation except the cell peak, which is at max_elevation (no cell
\* when peak = <<0, 0>>)
Grid(h, w, b, mm, peak) ==
    [elevation |-> [i \in 1 .. h |-> [j \in 1 .. w |->
                       IF <<i, j>> = peak THEN mm[2] ELSE mm[1]]],
     bounds |-> b,
     resolution |-> [height |-> h, width |-> w],
     min_elevation |-> mm[1],
     max_elevation |-> mm[2]]

Peaks(h, w) == {<<0, 0>>} \cup ((1 .. h) \X (1 .. w))

NoGeometry == Geometry("None", TRUE, <<>>, <<>>, <<0, 0>>)
NoGrid ==
    [elevation |-> <<>>, bounds |-> [west |-> 0, east |-> 0, south |-> 0, north |-> 0],
     resolution |-> [height |-> 0, width |-> 0],
     min_elevation |-> RInt(0), max_elevation |-> RInt(0)]

\* footprints of the building rows
Tri == Polygon(closed(<< <<0, 0>>, <<1, 0>>, <<1, 60>> >>), <<1, 33>>)
Sq == Polygon(closed(<< <<0, 0>>, <<0, 60>>, <<1, 60>>, <<1, 0>> >>), <<0, 33>>)
Deg == Polygon(<< <<0, 0>>, <<1, 0>>, <<0, 0>> >>, <<1, 0>>)
PointGeom == Geometry("Point", FALSE, <<>>, <<>>, <<0, 0>>)
LineGeom == Geometry("LineString", FALSE, <<>>, <<>>, <<0, 0>>)
MultiPolygon(geoms) == Geometry("MultiPolygon", geoms = <<>>, <<>>, geoms, <<0, 60>>)

SubPolygons == {EmptyPolygon, Tri}
MultiPolygons ==
    {MultiPolygon(g) : g \in UNION {[1 .. n -> SubPolygons] : n \in 0 .. MaxParts}}
    \cup {MultiPolygon(<<Tri, Sq>>), MultiPolygon(<<Deg, Sq>>)}

\* a row without its index label: the frame has all the optional columns
\* ("full") or none of them ("bare")
Kind(geometry, height, named) ==
    [geometry |-> geometry,
     height |-> height,
     name |-> IF named THEN Some("Shelby Hall") ELSE None,
     building_type |-> IF named THEN Some("academic") ELSE None,
     purpose |-> IF named THEN Some("Engineering & Science") ELSE None,
     color |-> IF named THEN Some("#457b9d") ELSE None]

FullKinds ==
    {Kind(g, HeightOf(Float(20)), TRUE) :
        g \in {NoGeometry, PointGeom, LineGeom, EmptyPolygon, Deg, Tri, Sq} \cup MultiPolygons}
    \cup {Kind(Sq, h, TRUE) : h \in {HeightNone, HeightOf(NaN), HeightOf(Float(0))}}

BareKinds ==
    {Kind(g, HeightAbsent, FALSE) :
        g \in {PointGeom, Sq, MultiPolygon(<<Tri, Sq>>), MultiPolygon(<<EmptyPolygon, Tri>>)}}

\* the frame read by gpd.read_file: row i carries the index label i - 1
Frame(kinds) ==
    [i \in 1 .. Len(kinds) |->
        [idx |-> i - 1,
         geometry |-> kinds[i].geometry,
         height |-> kinds[i].height,
         name |-> kinds[i].name,
         building_type |-> kinds[i].building_type,
         purpose |-> kinds[i].purpose,
         color |-> kinds[i].color]]

\* ""
NameEmpty == <<>>
\* "Gorgas Library Annex"
NameGorgasAnnex == <<"G", "o", "r", "g", "a", "s", " ", "L", "i", "b", "r", "a", "r", "y", " ", "A", "n", "n", "e", "x">>
\* "gorgas library"
NameGorgasLower == <<"g", "o", "r", "g", "a", "s", " ", "l", "i", "b", "r", "a", "r", "y">>
\* "Hall"
NameHall == <<"H", "a", "l", "l">>
\* "Russell Hall"
NameRussell == <<"R", "u", "s", "s", "e", "l", "l", " ", "H", "a", "l", "l">>
\* "SHELBY HALL"
NameShelby == <<"S", "H", "E", "L", "B", "Y", " ", "H", "A", "L", "L">>
\* "Bryant"
NameBryant == <<"B", "r", "y", "a", "n", "t">>
\* "Reese Phifer Hall"
NameReese == <<"R", "e", "e", "s", "e", " ", "P", "h", "i", "f", "e", "r", " ", "H", "a", "l", "l">>

\* "Ferguson Center"
NameFerguson == <<"F", "e", "r", "g", "u", "s", "o", "n", " ", "C", "e", "n", "t", "e", "r">>

RowNames ==
    {None} \cup {Some(t) : t \in {NameEmpty, NameGorgasAnnex, NameGorgasLower, NameHall,
                                  NameRussell, NameShelby, NameBryant, NameReese,
                                  NameFerguson}}

RowHeights == {None, Some(default_placeholder), Some(12)}

\* the rows handed to the pass of implementation impl: the frame of
\* fetch_overture_buildings has no color column
OverrideRows(impl) ==
    {[display_name |-> n, category |-> p, purpose |-> p, height |-> h,
      color |-> IF impl = "apply_metadata" THEN p ELSE None] :
        n \in RowNames, h \in RowHeights, p \in {None, Some("old")}}

\* a row of the frame sjoin returns: the id and the display_name of the
\* primary record and the four name columns of one intersecting OSM feature
\* (housename is the column addr:housename)
JoinedRow(id, d, n, h, o, a) ==
    [id |-> id, display_name |-> d, name |-> n, housename |-> h,
     official_name |-> o, alt_name |-> a]

NoJoinedRow == JoinedRow("", None, None, None, None, None)

NoRow ==
    [display_name |-> None, category |-> None, purpose |-> None, height |-> None,
     color |-> None]

(***************************************************************************)
(* Idle values of the variables a specification does not use               *)
(***************************************************************************)
MeshIdle ==
    /\ m_fn = "idle" /\ m_polygon = None /\ m_height = Float(0)
    /\ m_grid = NoGrid /\ m_result = None /\ m_pc = "idle"

BuildingsIdle ==
    /\ buildings_gdf = <<>> /\ buildings_3d = <<>> /\ row = 0
    /\ calls = <<>> /\ origin = <<>> /\ pc = "idle"

OverrideIdle ==
    /\ o_impl = "idle" /\ o_row = NoRow /\ o_out = NoRow /\ o_again = NoRow
    /\ o_pc = "idle"

ReconcileIdle ==
    /\ r_impl = "idle" /\ r_source = "idle" /\ r_primary = <<>> /\ r_osm = <<>>
    /\ r_rows = <<>> /\ r_output = None /\ r_first = None /\ r_run = 0
    /\ r_pc = "idle"

NameIdle ==
    /\ n_impl = "idle" /\ n_row = NoJoinedRow /\ n_name = None /\ n_pc = "idle"

PipelineIdle ==
    /\ p_step = 0 /\ p_ok = 0 /\ p_runs = <<>> /\ p_log = <<>> /\ p_report = None
    /\ p_pc = "idle"

(***************************************************************************)
(* The mesh specification: one call of extrude_polygon or of               *)
(* create_terrain_mesh on an input of the bounded sets                     *)
(***************************************************************************)
MeshInit ==
    /\ \/ /\ m_fn = "extrude_polygon"
          /\ \/ m_polygon \in {None, Some(EmptyPolygon)}
             \/ \E n \in 1 .. MaxRing : \E ring \in RingsOfLen(n) : \E c \in Centroids :
                    m_polygon = Some(Polygon(closed(ring), c))
          /\ m_height \in MeshHeights
          /\ m_grid = NoGrid
       \/ /\ m_fn = "create_terrain_mesh"
          /\ m_polygon = None
          /\ m_height = Float(0)
          /\ \E h \in 0 .. MaxRows : \E w \in 0 .. MaxCols :
             \E b \in GridBounds : \E mm \in MinMax : \E peak \in Peaks(h, w) :
                    m_grid = Grid(h, w, b, mm, peak)
    /\ m_result = None
    /\ m_pc = "call"
    /\ BuildingsIdle
    /\ OverrideIdle
    /\ ReconcileIdle
    /\ NameIdle
    /\ PipelineIdle

CallExtrude ==
    /\ m_pc = "call"
    /\ m_fn = "extrude_polygon"
    /\ m_result' = extrude_polygon(m_polygon, m_height)
    /\ m_pc' = "returned"
    /\ UNCHANGED <<m_fn, m_polygon, m_height, m_grid, bld_vars, ovr_vars, rec_vars, name_vars, pipe_vars>>

CallTerrain ==
    /\ m_pc = "call"
    /\ m_fn = "create_terrain_mesh"
    /\ IF terrain_raises(m_grid)
       THEN m_result' = None /\ m_pc' = "raised"
       ELSE m_result' = Some(create_terrain_mesh(m_grid)) /\ m_pc' = "returned"
    /\ UNCHANGED <<m_fn, m_polygon, m_height, m_grid, bld_vars, ovr_vars, rec_vars, name_vars, pipe_vars>>

MeshNext == CallExtrude \/ CallTerrain

SpecMesh == MeshInit /\ [][MeshNext]_vars

(***************************************************************************)
(* The buildings specification: process_buildings_to_3d on a frame, one    *)
(* action per iteration of the iterrows loop                               *)
(***************************************************************************)
BuildingsInit ==
    /\ \E n \in 0 .. MaxBuildings :
          \E ks \in [1 .. n -> FullKinds] \cup [1 .. n -> BareKinds] :
             buildings_gdf = Frame(ks)
    /\ buildings_3d = <<>>
    /\ row = 1
    /\ calls = <<>>
    /\ origin = <<>>
    /\ pc = "loop"
    /\ MeshIdle
    /\ OverrideIdle
    /\ ReconcileIdle
    /\ NameIdle
    /\ PipelineIdle

InLoop == pc = "loop" /\ row <= Len(buildings_gdf)

\* line 109-117 on a missing geometry: None has no geom_type, AttributeError
\* leaves the function, nothing is returned
RowRaises ==
    /\ InLoop
    /\ buildings_gdf[row].geometry.geom_type = "None"
    /\ pc' = "raised"
    /\ UNCHANGED <<buildings_gdf, buildings_3d, row, calls, origin, mesh_vars, ovr_vars, rec_vars, name_vars, pipe_vars>>

\* lines 117-127
RowPolygon ==
    /\ InLoop
    /\ buildings_gdf[row].geometry.geom_type = "Polygon"
    /\ LET building == buildings_gdf[row]
           geometry == building.geometry
           height == row_height(building)
           model == extrude_polygon(Some(geometry), height)
       IN  /\ calls' = Append(calls, <<row, 0>>)
           /\ IF model # None
              THEN /\ buildings_3d' =
                        Append(buildings_3d,
                               make_record(model[1], polygon_id(building.idx),
                                           building, height, geometry))
                   /\ origin' = Append(origin, <<row, 0>>)
              ELSE UNCHANGED <<buildings_3d, origin>>
    /\ row' = row + 1
    /\ UNCHANGED <<buildings_gdf, pc, mesh_vars, ovr_vars, rec_vars, name_vars, pipe_vars>>

\* lines 129-141
RowMultiPolygon ==
    /\ InLoop
    /\ buildings_gdf[row].geometry.geom_type = "MultiPolygon"
    /\ LET st == geoms_loop(buildings_gdf[row], row, 1,
                            [models |-> buildings_3d, calls |-> calls, origin |-> origin])
       IN  /\ buildings_3d' = st.models
           /\ calls' = st.calls
           /\ origin' = st.origin
    /\ row' = row + 1
    /\ UNCHANGED <<buildings_gdf, pc, mesh_vars, ovr_vars, rec_vars, name_vars, pipe_vars>>

\* neither branch of lines 117 and 129 is taken
RowOther ==
    /\ InLoop
    /\ buildings_gdf[row].geometry.geom_type \notin {"None", "Polygon", "MultiPolygon"}
    /\ row' = row + 1
    /\ UNCHANGED <<buildings_gdf, buildings_3d, calls, origin, pc, mesh_vars, ovr_vars, rec_vars, name_vars, pipe_vars>>

\* line 143
Return ==
    /\ pc = "loop"
    /\ row > Len(buildings_gdf)
    /\ pc' = "done"
    /\ UNCHANGED <<buildings_gdf, buildings_3d, row, calls, origin, mesh_vars, ovr_vars, rec_vars, name_vars, pipe_vars>>

BuildingsNext == RowRaises \/ RowPolygon \/ RowMultiPolygon \/ RowOther \/ Return

SpecBuildings == BuildingsInit /\ [][BuildingsNext]_vars

(***************************************************************************)
(* Properties of the meshes (SpecMesh)                                     *)
(***************************************************************************)
ExtrudeReturned == m_fn = "extrude_polygon" /\ m_pc = "returned"
TerrainReturned == m_fn = "create_terrain_mesh" /\ m_pc = "returned"

\* the number of points of the ring of m_polygon once a repeated closing
\* vertex is taken off
RingSize ==
    LET c == m_polygon[1].coords
    IN  IF Len(c) >= 1 /\ c[1] = c[Len(c)] THEN Len(c) - 1 ELSE Len(c)

HasRing == m_polygon # None /\ ~m_polygon[1].is_empty

IndicesInRange(mesh) ==
    \A f \in 1 .. Len(mesh.faces) : \A k \in 1 .. 3 :
        mesh.faces[f][k] >= 0 /\ mesh.faces[f][k] < Len(mesh.vertices)

\* C1: every index of every face of a mesh returned by extrude_polygon (ring
\* of n >= 3 points) or by create_terrain_mesh (rows >= 2 and cols >= 2) is
\* >= 0 and < the number of vertices of that mesh.
C1_FaceIndicesInRange ==
    /\ (ExtrudeReturned /\ m_result # None /\ RingSize >= 3)
          => IndicesInRange(m_result[1])
    /\ (TerrainReturned /\ m_grid.resolution.height >= 2 /\ m_grid.resolution.width >= 2)
          => (m_result # None /\ IndicesInRange(m_result[1]))

\* a returned mesh of a 4-point ring one of whose faces uses the last vertex
C1_Witness ==
    /\ ExtrudeReturned /\ m_result # None /\ RingSize = 4
    /\ \E f \in 1 .. Len(m_result[1].faces) :
          m_result[1].faces[f][2] = Len(m_result[1].vertices) - 1

\* the faces lo .. hi of the mesh have their indices in the set S
FacesWithin(mesh, lo, hi, S) ==
    \A f \in lo .. hi : \A k \in 1 .. 3 : mesh.faces[f][k] \in S

\* C2: for a ring of n >= 3 points (closing vertex removed) and a height
\* h > 0, extrude_polygon returns a mesh of exactly 2n vertices and
\* 2n + 2(n-2) faces: 2n wall triangles, each joining the two rings, then
\* n-2 triangles on the bottom ring and n-2 on the top ring.
C2_ExtrudeCounts ==
    (ExtrudeReturned /\ HasRing /\ RingSize >= 3 /\ GtZero(m_height)) =>
        LET n == RingSize
        IN  /\ m_result # None
            /\ Len(m_result[1].vertices) = 2 * n
            /\ m_result[1].num_vertices = 2 * n
            /\ Len(m_result[1].faces) = 2 * n + 2 * (n - 2)
            /\ m_result[1].num_faces = 2 * n + 2 * (n - 2)
            /\ \A f \in 1 .. 2 * n :
                  /\ \E k \in 1 .. 3 : m_result[1].faces[f][k] < n
                  /\ \E k \in 1 .. 3 : m_result[1].faces[f][k] >= n
            /\ FacesWithin(m_result[1], 2 * n + 1, 3 * n - 2, 0 .. (n - 1))
            /\ FacesWithin(m_result[1], 3 * n - 1, 4 * n - 4, n .. (2 * n - 1))

\* the square of height 10 extruded to 8 vertices and 12 faces
C2_Witness ==
    /\ ExtrudeReturned
    /\ HasRing
    /\ m_polygon[1].coords = closed(<< <<0, 0>>, <<0, 60>>, <<1, 60>>, <<1, 0>> >>)
    /\ m_height = Float(10)
    /\ m_result # None
    /\ m_result[1].num_vertices = 8
    /\ m_result[1].num_faces = 12

\* C3: extrude_polygon returns None when the ring is None or empty and
\* whenever the ring has fewer than 3 points once a repeated closing vertex
\* is removed; no returned mesh has fewer than 3 bottom vertices.
C3_NoneBelowThreePoints ==
    ExtrudeReturned =>
        /\ (~HasRing \/ RingSize < 3) => m_result = None
        /\ m_result # None => Len(m_result[1].vertices) \div 2 >= 3

(***************************************************************************)
(* Properties of process_buildings_to_3d (SpecBuildings)                   *)
(***************************************************************************)
\* the rows whose iteration has completed
Processed == 1 .. (row - 1)

\* the positions in buildings_3d of the records made from row r
RecordsOf(r) == {j \in 1 .. Len(origin) : origin[j][1] = r}

\* the calls of extrude_polygon made for row r
CallsOf(r) == {c \in 1 .. Len(calls) : calls[c][1] = r}

RingPoints(coords) ==
    IF Len(coords) >= 1 /\ coords[1] = coords[Len(coords)]
    THEN Len(coords) - 1
    ELSE Len(coords)

ValidRing(g) ==
    g.geom_type = "Polygon" /\ ~g.is_empty /\ RingPoints(g.coords) >= 3

IsMulti(r) == buildings_gdf[r].geometry.geom_type = "MultiPolygon"

\* the sub-polygons of row r for which extrude_polygon returns a mesh
Accepted(r) ==
    {k \in 1 .. Len(buildings_gdf[r].geometry.geoms) :
        extrude_polygon(Some(buildings_gdf[r].geometry.geoms[k]),
                        row_height(buildings_gdf[r])) # None}

\* C4: a Multi-Polygon building with one sub-part rejected by
\* extrude_polygon and one valid sub-part yields exactly one record, whose
\* id is "<id of the building>_0", at whatever position the building stands.
C4_SuffixZeroAtAnyPosition ==
    \A r \in Processed :
        (IsMulti(r) /\ Len(buildings_gdf[r].geometry.geoms) = 2
                    /\ Cardinality(Accepted(r)) = 1) =>
            /\ Cardinality(RecordsOf(r)) = 1
            /\ \A j \in RecordsOf(r) :
                  buildings_3d[j].id = str(buildings_gdf[r].idx) \o "_0"

\* C5: for a Multi-Polygon building there is one extrude_polygon call per
\* sub-polygon, the records of the building are those of the sub-polygons
\* for which extrude_polygon returned a mesh, in sub-polygon order, and the
\* numeric suffixes of their ids are consecutive integers in that order.
C5_ConsecutiveSuffixes ==
    \A r \in Processed : IsMulti(r) =>
        LET n == Len(buildings_gdf[r].geometry.geoms)
            recs == RecordsOf(r)
        IN  /\ Cardinality(CallsOf(r)) = n
            /\ \A k \in 1 .. n : \E c \in CallsOf(r) : calls[c] = <<r, k>>
            /\ {origin[j][2] : j \in recs} = Accepted(r)
            /\ Cardinality(recs) = Cardinality(Accepted(r))
            /\ \A i, j \in recs : i < j => origin[i][2] < origin[j][2]
            /\ \E k0 \in 0 .. Len(buildings_3d) : \A j \in recs :
                  buildings_3d[j].id =
                      str(buildings_gdf[r].idx) \o "_"
                          \o str(k0 + Cardinality({i \in recs : i < j}))

\* a finished run with a Multi-Polygon building of which a sub-part was
\* rejected and another one produced a record, and a building of which two
\* sub-parts produced records
C5_Witness ==
    /\ pc = "done"
    /\ \E r \in Processed :
          IsMulti(r) /\ RecordsOf(r) # {}
             /\ Cardinality(RecordsOf(r)) < Len(buildings_gdf[r].geometry.geoms)
    /\ \E r \in Processed : IsMulti(r) /\ Cardinality(RecordsOf(r)) = 2

\* C6: a building whose geometry is a Polygon with a valid ring yields
\* exactly one record, and the id of the record is the identifier of the
\* building, with no suffix.
C6_PolygonIdUnchanged ==
    \A r \in Processed : ValidRing(buildings_gdf[r].geometry) =>
        /\ Cardinality(RecordsOf(r)) = 1
        /\ \A j \in RecordsOf(r) : buildings_3d[j].id = str(buildings_gdf[r].idx)

\* a finished run whose second row is a valid Polygon, with its record "1"
C6_Witness ==
    /\ pc = "done"
    /\ Len(buildings_gdf) = 2
    /\ ValidRing(buildings_gdf[2].geometry)
    /\ \E j \in RecordsOf(2) : buildings_3d[j].id = "1"

Unusable(g) ==
    \/ g.geom_type \notin {"Polygon", "MultiPolygon"}
    \/ g.geom_type = "Polygon" /\ ~ValidRing(g)

\* C7: a feature whose geometry is empty, degenerate, missing or of an
\* unsupported type yields no record and raises no error, and the batch is
\* not aborted: the output holds the records of the valid features.
C7_BadFeaturesSkipped ==
    /\ pc # "raised"
    /\ \A r \in Processed : Unusable(buildings_gdf[r].geometry) => RecordsOf(r) = {}
    /\ pc = "done" =>
          \A r \in 1 .. Len(buildings_gdf) :
              ValidRing(buildings_gdf[r].geometry) => RecordsOf(r) # {}

TopRing(model) ==
    {model.vertices[v] :
        v \in (Len(model.vertices) \div 2 + 1) .. Len(model.vertices)}

InvalidHeight(h) == h.k \in {"absent", "none"} \/ h.f.nan \/ h.f.v <= 0

\* C8: every record has a height > 0 and its top-ring vertices have z equal
\* to that height; a building whose height is absent, None, NaN or <= 0 is
\* extruded with the default 15.0.
C8_PositiveHeight ==
    \A j \in 1 .. Len(buildings_3d) :
        /\ GtZero(buildings_3d[j].height)
        /\ \A v \in TopRing(buildings_3d[j]) : v[3] = buildings_3d[j].height
        /\ InvalidHeight(buildings_gdf[origin[j][1]].height)
              => buildings_3d[j].height = Float(15)

\* the sub-polygon a record was extruded from
SourcePolygon(j) ==
    IF origin[j][2] = 0
    THEN buildings_gdf[origin[j][1]].geometry
    ELSE buildings_gdf[origin[j][1]].geometry.geoms[origin[j][2]]

\* C9: every record carries the name, category, purpose and color of its
\* building unchanged, the same for all the sub-parts of the building, and
\* its center is the centroid of the sub-polygon it was extruded from.
C9_MetadataAndCenter ==
    /\ \A j \in 1 .. Len(buildings_3d) :
          LET b == buildings_gdf[origin[j][1]]
              rec == buildings_3d[j]
          IN  /\ b.name # None => rec.name = b.name[1]
              /\ b.building_type # None => rec.type = b.building_type[1]
              /\ b.purpose # None => rec.purpose = b.purpose[1]
              /\ b.color # None => rec.color = b.color[1]
              /\ rec.center[1] = SourcePolygon(j).centroid[1]
              /\ rec.center[2] = SourcePolygon(j).centroid[2]
    /\ \A i, j \in 1 .. Len(buildings_3d) : origin[i][1] = origin[j][1] =>
          /\ buildings_3d[i].name = buildings_3d[j].name
          /\ buildings_3d[i].type = buildings_3d[j].type
          /\ buildings_3d[i].purpose = buildings_3d[j].purpose
          /\ buildings_3d[i].color = buildings_3d[j].color

\* a finished run with a named building split in two records whose centers
\* differ from each other and from the centroid of the whole building
C9_Witness ==
    /\ pc = "done"
    /\ \E i, j \in 1 .. Len(buildings_3d) :
          /\ i # j
          /\ origin[i][1] = origin[j][1]
          /\ buildings_gdf[origin[i][1]].name # None
          /\ buildings_3d[i].center # buildings_3d[j].center
          /\ buildings_3d[i].center # buildings_gdf[origin[i][1]].geometry.centroid
          /\ buildings_3d[j].center # buildings_gdf[origin[i][1]].geometry.centroid

(***************************************************************************)
(* The override specification: the manual override pass of one of the two  *)
(* files applied to a row                                                  *)
(***************************************************************************)
OverrideInit ==
    /\ o_impl \in {"apply_metadata", "apply_manual_meta"}
    /\ o_row \in OverrideRows(o_impl)
    /\ o_out = NoRow
    /\ o_again = NoRow
    /\ o_pc = "call"
    /\ MeshIdle
    /\ BuildingsIdle
    /\ ReconcileIdle
    /\ NameIdle
    /\ PipelineIdle

ApplyMetadata ==
    /\ o_pc = "call"
    /\ o_impl = "apply_metadata"
    /\ o_out' = apply_metadata(o_row)
    /\ o_pc' = "returned"
    /\ UNCHANGED <<o_impl, o_row, o_again, mesh_vars, bld_vars, rec_vars, name_vars, pipe_vars>>

ApplyManualMeta ==
    /\ o_pc = "call"
    /\ o_impl = "apply_manual_meta"
    /\ o_out' = apply_manual_meta(o_row)
    /\ o_pc' = "returned"
    /\ UNCHANGED <<o_impl, o_row, o_again, mesh_vars, bld_vars, rec_vars, name_vars, pipe_vars>>

\* the pass applied once more, to the row it returned
ApplyAgain ==
    /\ o_pc = "returned"
    /\ o_again' = IF o_impl = "apply_metadata"
                  THEN apply_metadata(o_out)
                  ELSE apply_manual_meta(o_out)
    /\ o_pc' = "again"
    /\ UNCHANGED <<o_impl, o_row, o_out, mesh_vars, bld_vars, rec_vars, name_vars, pipe_vars>>

OverrideNext == ApplyMetadata \/ ApplyManualMeta \/ ApplyAgain

SpecOverride == OverrideInit /\ [][OverrideNext]_vars

(***************************************************************************)
(* Properties of the manual override pass (SpecOverride)                   *)
(***************************************************************************)
\* the entries whose key is contained in the name or contains it, letter
\* case ignored
MatchingEntries(name) ==
    {i \in 1 .. Len(building_metadata) :
        \/ contains(lower(building_metadata[i].key), lower(name))
        \/ contains(lower(name), lower(building_metadata[i].key))}

FirstOf(S) == CHOOSE i \in S : \A j \in S : i <= j

\* C10: in both implementations, a row whose name contains a key or is
\* contained in it (case-insensitively) has its name, category, purpose and
\* color overwritten with the values of the curated entry.
C10_MatchOverwrites ==
    (o_pc = "returned" /\ o_row.display_name # None
        /\ MatchingEntries(o_row.display_name[1]) # {}) =>
        LET data == building_metadata[FirstOf(MatchingEntries(o_row.display_name[1]))]
        IN  /\ o_out.display_name = Some(data.name)
            /\ o_out.category = data.type
            /\ o_out.purpose = data.purpose
            /\ data.color # None => o_out.color = data.color

Matched == o_row.display_name # None /\ MatchingEntries(o_row.display_name[1]) # {}

FirstEntry == building_metadata[FirstOf(MatchingEntries(o_row.display_name[1]))]

Sourced(h) == h # None /\ h # Some(default_placeholder)

\* C11: a height that is neither null nor the placeholder 8.0 before the
\* pass is the same after the pass, whether the row matched an entry or not.
C11_SourcedHeightKept ==
    (o_pc = "returned" /\ Sourced(o_row.height)) => o_out.height = o_row.height

\* a matched row of apply_manual_meta with the sourced height 12: the pass
\* rewrote its name and left the height
C11_Witness ==
    /\ o_pc = "returned"
    /\ o_impl = "apply_manual_meta"
    /\ Matched
    /\ o_row.height = Some(12)
    /\ o_out.display_name # o_row.display_name
    /\ o_out.height = Some(12)

\* C12: in both implementations, a row that matches an entry and whose
\* height is null or the placeholder 8.0 leaves the pass with the height of
\* the curated entry.
C12_PlaceholderHeightReplaced ==
    (o_pc = "returned" /\ Matched /\ ~Sourced(o_row.height)) =>
        o_out.height = FirstEntry.height

\* C13: when the name of a row matches several entries, the row leaves the
\* pass with the values of the first of them in table order, and no field
\* holds a value of a later entry.
C13_FirstEntryWins ==
    (o_pc = "returned" /\ o_row.display_name # None
        /\ Cardinality(MatchingEntries(o_row.display_name[1])) >= 2) =>
        /\ o_out.display_name = Some(FirstEntry.name)
        /\ o_out.category = FirstEntry.type
        /\ o_out.purpose = FirstEntry.purpose
        /\ o_out.height \in {o_row.height, FirstEntry.height}
        /\ o_out.color \in {o_row.color, FirstEntry.color}

\* the name "Hall", contained in the keys of Shelby Hall, Russell Hall and
\* Gallalee Hall, resolved to Shelby Hall
C13_Witness ==
    /\ o_pc = "returned"
    /\ o_row.display_name = Some(NameHall)
    /\ MatchingEntries(NameHall) = {4, 6, 7}
    /\ o_out.display_name = Some(building_metadata[4].name)
    /\ o_out.purpose = Some("Engineering & Science")

TerrainRows == m_grid.resolution.height

TerrainCols == m_grid.resolution.width

\* C20: for a grid of at least two rows and two columns, create_terrain_mesh
\* returns rows * cols vertices, rows * cols uv pairs and
\* 2 * (rows - 1) * (cols - 1) faces, and vertex k and uv pair k belong to
\* the same grid cell, row (k - 1) \div cols and column (k - 1) % cols.
C20_TerrainCounts ==
    (TerrainReturned /\ TerrainRows >= 2 /\ TerrainCols >= 2) =>
        LET mesh == m_result[1]
            bounds == m_grid.bounds
        IN  /\ Len(mesh.vertices) = TerrainRows * TerrainCols
            /\ Len(mesh.uvs) = TerrainRows * TerrainCols
            /\ Len(mesh.faces) = 2 * (TerrainRows - 1) * (TerrainCols - 1)
            /\ \A k \in 1 .. TerrainRows * TerrainCols :
                   LET fi == Rat((k - 1) \div TerrainCols, TerrainRows - 1)
                       fj == Rat((k - 1) % TerrainCols, TerrainCols - 1)
                   IN  /\ mesh.uvs[k] = <<fj, RSub(RInt(1), fi)>>
                       /\ mesh.vertices[k][2] =
                              RMul(RMul(fi, RInt(bounds.north - bounds.south)),
                                   RInt(lat_to_m))

\* a grid of two rows and three columns came back as six vertices, six uv
\* pairs and four faces
C20_Witness ==
    /\ TerrainReturned
    /\ TerrainRows = 2
    /\ TerrainCols = 3
    /\ Len(m_result[1].vertices) = 6
    /\ Len(m_result[1].uvs) = 6
    /\ Len(m_result[1].faces) = 4

(***************************************************************************)
(* The name reconciler: the OSM join of enrich_buildings.py:27-84 (enrich)  *)
(* and of fetch_overture_buildings.py:72-117 (fetch_buildings), followed by *)
(* the manual override pass and the save.                                  *)
(*                                                                         *)
(* A record of the frame is [id, footprint, display_name, category,        *)
(* purpose, height, color]; an OSM feature is [name, housename,            *)
(* official_name, alt_name, footprint].  A footprint is the set of cells   *)
(* of a grid the geometry covers, and two geometries intersect when they   *)
(* share a cell.                                                           *)
(***************************************************************************)
MaxPrimary == 2
MaxSecondary == 2

\* predicate='intersects' of gpd.sjoin
intersects(a, b) == a \cap b # {}

\* enrich_buildings.py:51-61
get_best_name(r) ==
    IF r.display_name # None /\ r.display_name # Some(NameEmpty) THEN r.display_name
    ELSE IF r.name # None THEN r.name
    ELSE IF r.housename # None THEN r.housename
    ELSE IF r.official_name # None THEN r.official_name
    ELSE IF r.alt_name # None THEN r.alt_name
    ELSE None

\* fetch_overture_buildings.py:99-109
get_best_name_fetch(r) ==
    IF r.display_name # None /\ r.display_name # Some(NameEmpty) THEN r.display_name
    ELSE IF r.name # None THEN r.name
    ELSE IF r.housename # None THEN r.housename
    ELSE IF r.official_name # None THEN r.official_name
    ELSE IF r.alt_name # None THEN r.alt_name
    ELSE None

best_name(impl, r) ==
    IF impl = "enrich" THEN get_best_name(r) ELSE get_best_name_fetch(r)

\* gpd.sjoin(left, right, how='left', predicate='intersects'): the rows of
\* left in order, each once per intersecting feature of right, in the order
\* of right; a row of left that intersects nothing appears once, with null
\* name columns
sjoin(left, right) ==
    Concat([i \in 1 .. Len(left) |->
               LET hits == SelectSeq(right,
                               LAMBDA f : intersects(left[i].footprint, f.footprint))
               IN  IF hits = <<>>
                   THEN <<JoinedRow(left[i].id, left[i].display_name,
                                    None, None, None, None)>>
                   ELSE [k \in 1 .. Len(hits) |->
                            JoinedRow(left[i].id, left[i].display_name,
                                      hits[k].name, hits[k].housename,
                                      hits[k].official_name, hits[k].alt_name)]],
           1, Len(left))

\* the value at position i of the column, null or not
first_any(col, i) ==
    IF i > Len(col) THEN None ELSE col[i]

RECURSIVE first_notna(_, _)
\* GroupBy.first(): the first non-null value of the column from position i
\* on, null when there is none
first_notna(col, i) ==
    IF i > Len(col) THEN None
    ELSE IF col[i] # None THEN col[i]
    ELSE first_notna(col, i + 1)

\* enriched.groupby('id')[new_name].first(), read at one id
name_map(enriched, impl, id) ==
    LET group == SelectSeq(enriched, LAMBDA r : r.id = id)
    IN  first_notna([k \in 1 .. Len(group) |-> best_name(impl, group[k])], 1)

\* the joined frame written in place of the primary frame: one record per
\* row of the join
map_names_joined(rows, right, impl) ==
    LET enriched == sjoin(rows, right)
    IN  [k \in 1 .. Len(enriched) |->
            LET src == CHOOSE i \in 1 .. Len(rows) : rows[i].id = enriched[k].id
                nm == name_map(enriched, impl, enriched[k].id)
            IN  [rows[src] EXCEPT !.display_name =
                    IF impl = "enrich" /\ nm = None THEN @ ELSE nm]]

\* enrich_buildings.py:47-82: id.map(name_map).fillna(display_name);
\* fetch_overture_buildings.py:91-113: id.map(name_map)
map_names(rows, right, impl) ==
    LET enriched == sjoin(rows, right)
    IN  [i \in 1 .. Len(rows) |->
            LET nm == name_map(enriched, impl, rows[i].id)
            IN  [rows[i] EXCEPT !.display_name =
                    IF impl = "enrich" /\ nm = None THEN @ ELSE nm]]

\* buildings_gdf.apply(apply_metadata, axis=1) of enrich_buildings.py:162 and
\* output_gdf.apply(apply_manual_meta, axis=1) of
\* fetch_overture_buildings.py:185
override_all(rows, impl) ==
    [i \in 1 .. Len(rows) |->
        LET r == [display_name |-> rows[i].display_name,
                  category |-> rows[i].category,
                  purpose |-> rows[i].purpose,
                  height |-> rows[i].height,
                  color |-> rows[i].color]
            o == IF impl = "enrich" THEN apply_metadata(r) ELSE apply_manual_meta(r)
        IN  [id |-> rows[i].id,
             footprint |-> rows[i].footprint,
             display_name |-> o.display_name,
             category |-> o.category,
             purpose |-> o.purpose,
             height |-> o.height,
             color |-> o.color]]

(***************************************************************************)
(* Inputs of the reconciler                                                *)
(***************************************************************************)
\* the ids of the primary records, by position; not in sorted order
PrimaryIds == <<"w3", "w1", "w4", "w2">>

\* the record at position i of the primary frame: it covers cell i, and its
\* height is the placeholder fetch_buildings fills in
PrimaryRecord(i, d) ==
    [id |-> PrimaryIds[i],
     footprint |-> {i},
     display_name |-> d,
     category |-> None,
     purpose |-> None,
     height |-> Some(default_placeholder),
     color |-> None]

PrimaryNames == {None, Some(NameEmpty), Some(NameGorgasAnnex)}

Feature(n, h, o, a, fp) ==
    [name |-> n, housename |-> h, official_name |-> o, alt_name |-> a,
     footprint |-> fp]

\* an OSM building without any name
Unnamed(fp) == Feature(None, None, None, None, fp)

OsmFeatures ==
    {Feature(Some(NameShelby), None, None, None, {1}),
     Unnamed({1}),
     Feature(None, Some(NameRussell), None, None, {1, 2}),
     Feature(Some(NameReese), None, None, None, {2})}

JoinedRows ==
    {JoinedRow("w1", d, n, h, o, a) :
        d \in PrimaryNames,
        n \in {None, Some(NameEmpty), Some(NameShelby)},
        h \in {None, Some(NameRussell)},
        o \in {None, Some(NameBryant)},
        a \in {None, Some(NameReese)}}

(***************************************************************************)
(* The reconciler specification: one run of fetch_buildings or of enrich   *)
(* from the OSM fetch to the save                                          *)
(***************************************************************************)
ReconcileInit ==
    /\ r_impl \in {"fetch_buildings", "enrich"}
    /\ r_source \in {"ok", "no_names", "raises"}
    /\ \E n \in 1 .. MaxPrimary : \E names \in [1 .. n -> PrimaryNames] :
           r_primary = [i \in 1 .. n |-> PrimaryRecord(i, names[i])]
    /\ IF r_source = "ok"
       THEN \E m \in 1 .. MaxSecondary : r_osm \in [1 .. m -> OsmFeatures]
       ELSE IF r_source = "no_names"
       THEN r_osm = <<Unnamed({1})>>
       ELSE r_osm = <<>>
    /\ r_rows = r_primary
    /\ r_output = None
    /\ r_first = None
    /\ r_run = 1
    /\ r_pc = "start"
    /\ MeshIdle
    /\ BuildingsIdle
    /\ OverrideIdle
    /\ NameIdle
    /\ PipelineIdle

\* ox.features_from_bbox raises: fetch_buildings warns and goes on
\* (fetch_overture_buildings.py:116-117), enrich prints the error and ends
\* (enrich_buildings.py:171-174)
OsmRaises ==
    /\ r_pc = "start"
    /\ r_source = "raises"
    /\ r_pc' = IF r_impl = "fetch_buildings" THEN "joined" ELSE "failed"
    /\ UNCHANGED <<r_impl, r_source, r_primary, r_osm, r_rows, r_output, r_first,
                   r_run, mesh_vars, bld_vars, ovr_vars, name_vars, pipe_vars>>

\* the OSM frame has none of the name columns: fetch_buildings warns and
\* goes on (fetch_overture_buildings.py:84-85), enrich returns
\* (enrich_buildings.py:38-40)
OsmNoNames ==
    /\ r_pc = "start"
    /\ r_source = "no_names"
    /\ r_pc' = IF r_impl = "fetch_buildings" THEN "joined" ELSE "returned"
    /\ UNCHANGED <<r_impl, r_source, r_primary, r_osm, r_rows, r_output, r_first,
                   r_run, mesh_vars, bld_vars, ovr_vars, name_vars, pipe_vars>>

Join ==
    /\ r_pc = "start"
    /\ r_source = "ok"
    /\ r_rows' = map_names(r_rows, r_osm, r_impl)
    /\ r_pc' = "joined"
    /\ UNCHANGED <<r_impl, r_source, r_primary, r_osm, r_output, r_first, r_run,
                   mesh_vars, bld_vars, ovr_vars, name_vars, pipe_vars>>

ManualPass ==
    /\ r_pc = "joined"
    /\ r_rows' = override_all(r_rows, r_impl)
    /\ r_pc' = "overridden"
    /\ UNCHANGED <<r_impl, r_source, r_primary, r_osm, r_output, r_first, r_run,
                   mesh_vars, bld_vars, ovr_vars, name_vars, pipe_vars>>

\* to_file: enrich_buildings.py:168-169, fetch_overture_buildings.py:188-193
Save ==
    /\ r_pc = "overridden"
    /\ r_output' = Some(r_rows)
    /\ r_pc' = "saved"
    /\ UNCHANGED <<r_impl, r_source, r_primary, r_osm, r_rows, r_first, r_run,
                   mesh_vars, bld_vars, ovr_vars, name_vars, pipe_vars>>

ReconcileNext == OsmRaises \/ OsmNoNames \/ Join \/ ManualPass \/ Save

SpecReconcile == ReconcileInit /\ [][ReconcileNext]_vars

(***************************************************************************)
(* The name specification: get_best_name of one of the two files applied   *)
(* to a row of the joined frame                                            *)
(***************************************************************************)
NameInit ==
    /\ n_impl \in {"fetch_buildings", "enrich"}
    /\ n_row \in JoinedRows
    /\ n_name = None
    /\ n_pc = "call"
    /\ MeshIdle
    /\ BuildingsIdle
    /\ OverrideIdle
    /\ ReconcileIdle
    /\ PipelineIdle

GetBestName ==
    /\ n_pc = "call"
    /\ n_impl = "enrich"
    /\ n_name' = get_best_name(n_row)
    /\ n_pc' = "returned"
    /\ UNCHANGED <<n_impl, n_row, mesh_vars, bld_vars, ovr_vars, rec_vars, pipe_vars>>

GetBestNameFetch ==
    /\ n_pc = "call"
    /\ n_impl = "fetch_buildings"
    /\ n_name' = get_best_name_fetch(n_row)
    /\ n_pc' = "returned"
    /\ UNCHANGED <<n_impl, n_row, mesh_vars, bld_vars, ovr_vars, rec_vars, pipe_vars>>

NameNext == GetBestName \/ GetBestNameFetch

SpecName == NameInit /\ [][NameNext]_vars

(***************************************************************************)
(* The rerun specification: the override pass applied twice to a row, or   *)
(* the reconciler run a second time on the file it saved, with the same    *)
(* OSM features                                                            *)
(***************************************************************************)
Rerun ==
    /\ r_pc = "saved"
    /\ r_run = 1
    /\ r_first' = r_output
    /\ r_rows' = r_output[1]
    /\ r_output' = None
    /\ r_run' = 2
    /\ r_pc' = "start"
    /\ UNCHANGED <<r_impl, r_source, r_primary, r_osm,
                   mesh_vars, bld_vars, ovr_vars, name_vars, pipe_vars>>

RerunInit == OverrideInit \/ ReconcileInit

RerunNext == OverrideNext \/ ReconcileNext \/ Rerun

SpecRerun == RerunInit /\ [][RerunNext]_vars

(***************************************************************************)
(* Properties of a second application (SpecRerun)                          *)
(***************************************************************************)
\* C14: the override pass applied to the row it returned gives that row
\* again, for either implementation, and the reconciler run a second time on
\* the file it saved, with the same OSM features, saves the same file.
C14_Idempotent ==
    /\ o_pc = "again" => o_again = o_out
    /\ (r_run = 2 /\ r_pc = "saved") => r_output = r_first

\* a second run saved its file after a first run that gave a record a new
\* name and the values of a table entry
C14_Witness ==
    /\ r_run = 2
    /\ r_pc = "saved"
    /\ r_first # None
    /\ \E i \in 1 .. Len(r_primary) :
           /\ r_first[1][i].display_name # r_primary[i].display_name
           /\ r_first[1][i].category # None
           /\ r_first[1][i].height # r_primary[i].height

(***************************************************************************)
(* Properties of get_best_name (SpecName)                                  *)
(***************************************************************************)
NonEmpty(v) == v # None /\ v # Some(NameEmpty)

\* the candidates of a joined row in priority order
Candidates(r) == <<r.display_name, r.name, r.housename, r.official_name, r.alt_name>>

\* C15: the name resolved for one pair of a primary record and a secondary
\* feature is the first of display_name, name, addr:housename, official_name
\* and alt_name that is neither null nor the empty string, and no name (null)
\* when all five are null or empty.
C15_FirstNonEmptyInPriorityOrder ==
    n_pc = "returned" =>
        LET c == Candidates(n_row)
            S == {k \in 1 .. Len(c) : NonEmpty(c[k])}
        IN  IF S = {} THEN n_name = None
            ELSE n_name = c[CHOOSE k \in S : \A l \in S : k <= l]

(***************************************************************************)
(* Properties of the reconciler (SpecReconcile)                            *)
(***************************************************************************)
\* the OSM features that intersect the primary record at position i, in the
\* order of the OSM frame
MatchesOf(i) ==
    SelectSeq(r_osm, LAMBDA f : r_primary[i].footprint \cap f.footprint # {})

\* the name a pair of a primary record and an OSM feature resolves to: the
\* display name of the record when it has one, else the first name column
\* of the feature that is not null
ResolvedName(p, f) ==
    IF NonEmpty(p.display_name) THEN p.display_name
    ELSE IF f.name # None THEN f.name
    ELSE IF f.housename # None THEN f.housename
    ELSE IF f.official_name # None THEN f.official_name
    ELSE f.alt_name

\* C16: after the join, a primary record with several intersecting OSM
\* features of which at least one resolves to a name holds the name of the
\* first feature, in join order, that resolves to one; features resolving to
\* no name are passed over.
C16_FirstResolvedCandidate ==
    (r_pc = "joined" /\ r_source = "ok") =>
        \A i \in 1 .. Len(r_primary) :
            LET hits == MatchesOf(i)
                S == {k \in 1 .. Len(hits) : ResolvedName(r_primary[i], hits[k]) # None}
            IN  (Len(hits) >= 2 /\ S # {}) =>
                    r_rows[i].display_name =
                        ResolvedName(r_primary[i],
                                     hits[CHOOSE k \in S : \A l \in S : k <= l])

\* an unnamed record met an unnamed OSM building first and a named one
\* second, and holds the name of the second
C16_Witness ==
    /\ r_pc = "joined"
    /\ r_source = "ok"
    /\ r_primary[1].display_name = None
    /\ Len(MatchesOf(1)) = 2
    /\ MatchesOf(1)[1] = Unnamed({1})
    /\ MatchesOf(1)[2].name = Some(NameShelby)
    /\ r_rows[1].display_name = Some(NameShelby)

\* C17: after the join, a primary record that intersects no OSM feature holds
\* the display name it had before: a present name is the same, an absent
\* name is absent.
C17_UnmatchedKeepsName ==
    (r_pc = "joined" /\ r_source = "ok") =>
        \A i \in 1 .. Len(r_primary) :
            MatchesOf(i) = <<>> => r_rows[i].display_name = r_primary[i].display_name

\* once a run whose OSM fetch raised or brought no name column has ended
Degraded == r_source \in {"raises", "no_names"} /\ r_pc \in {"saved", "returned", "failed"}

\* C18: when the OSM fetch raises or brings no usable name column, the join
\* is skipped, the override pass still runs on the names the records had,
\* and the file is saved, in both reconcilers.
C18_DegradesWithoutOsm ==
    Degraded =>
        /\ r_pc = "saved"
        /\ r_output = Some(override_all(r_primary, r_impl))

\* C19: the saved file holds one record per primary record, with the same
\* ids and footprints in the same order, however many OSM features a record
\* intersects.
C19_OneRecordPerPrimary ==
    r_pc = "saved" =>
        /\ Len(r_output[1]) = Len(r_primary)
        /\ \A i \in 1 .. Len(r_primary) :
               /\ r_output[1][i].id = r_primary[i].id
               /\ r_output[1][i].footprint = r_primary[i].footprint

\* two primary records saved as two, the first of which intersects two OSM
\* features and the second none
C19_Witness ==
    /\ r_pc = "saved"
    /\ r_source = "ok"
    /\ Len(r_primary) = 2
    /\ Len(MatchesOf(1)) = 2
    /\ MatchesOf(2) = <<>>
    /\ Len(r_output[1]) = 2
    /\ <<r_output[1][1].id, r_output[1][2].id>> = <<PrimaryIds[1], PrimaryIds[2]>>

(***************************************************************************)
(* Further properties of create_terrain_mesh (SpecMesh)                    *)
(***************************************************************************)
TerrainEnded == m_fn = "create_terrain_mesh" /\ m_pc # "call"

MinElev == m_grid.min_elevation

MaxElev == m_grid.max_elevation

\* the cell of the grid that vertex k (1-based) of the mesh belongs to
CellElev(k) ==
    m_grid.elevation[((k - 1) \div TerrainCols) + 1][((k - 1) % TerrainCols) + 1]

\* C21: on a grid with no row, no column, a single row or a single column
\* create_terrain_mesh ends in an error and returns no mesh.
C21_DegenerateGridReported ==
    (TerrainEnded /\ (TerrainRows <= 1 \/ TerrainCols <= 1)) =>
        m_pc = "raised" /\ m_result = None

\* C22: the z of the vertex of every cell is
\* (elev - min_elev) / max(max_elev - min_elev, 1) * 10.
C22_NormalisedByRangeFlooredAtOne ==
    TerrainReturned =>
        LET range == RSub(MaxElev, MinElev)
            divisor == IF RLess(RInt(1), range) THEN range ELSE RInt(1)
        IN  \A k \in 1 .. Len(m_result[1].vertices) :
                m_result[1].vertices[k][3] =
                    RMul(RDiv(RSub(CellElev(k), MinElev), divisor), RInt(10))

\* C22 as the code computes it: the z of the vertex of every cell is
\* (elev - min_elev) / (max_elev - min_elev) * 10 when max_elev > min_elev,
\* also for a range below 1, and (elev - min_elev) * 10 otherwise.
C22_NormalisedByRange ==
    TerrainReturned =>
        LET divisor == IF RLess(MinElev, MaxElev) THEN RSub(MaxElev, MinElev)
                       ELSE RInt(1)
        IN  \A k \in 1 .. Len(m_result[1].vertices) :
                m_result[1].vertices[k][3] =
                    RMul(RDiv(RSub(CellElev(k), MinElev), divisor), RInt(10))

\* a grid with min_elevation 0 and max_elevation 1/2 whose first cell is at
\* 1/2: its vertex has z = 10
C22_Witness ==
    /\ TerrainReturned
    /\ TerrainRows >= 2
    /\ TerrainCols >= 2
    /\ MinElev = RInt(0)
    /\ MaxElev = Rat(1, 2)
    /\ CellElev(1) = Rat(1, 2)
    /\ m_result[1].vertices[1][3] = RInt(10)

RowOfIndex(v) == v \div TerrainCols

ColOfIndex(v) == v % TerrainCols

\* C26: with the vertex of cell (i, j) at index i * width + j, the faces are,
\* for every quad i in 0 .. height - 2, j in 0 .. width - 2, in order, the
\* triangles (idx, idx_right, idx_bottom) and (idx_right, idx_bottom_right,
\* idx_bottom) and nothing else; the three vertices of every face lie in two
\* adjacent rows and two adjacent columns.
C26_TerrainFacesPerQuad ==
    (TerrainReturned /\ TerrainRows >= 2 /\ TerrainCols >= 2) =>
        LET faces == m_result[1].faces
            quads == (TerrainRows - 1) * (TerrainCols - 1)
        IN  /\ Len(faces) = 2 * quads
            /\ \A i \in 0 .. (TerrainRows - 2) : \A j \in 0 .. (TerrainCols - 2) :
                   LET q == i * (TerrainCols - 1) + j
                       idx == i * TerrainCols + j
                   IN  /\ faces[2 * q + 1] = <<idx, idx + 1, idx + TerrainCols>>
                       /\ faces[2 * q + 2] =
                              <<idx + 1, idx + TerrainCols + 1, idx + TerrainCols>>
            /\ \A f \in 1 .. Len(faces) :
                   \E i \in 0 .. (TerrainRows - 2) : \E j \in 0 .. (TerrainCols - 2) :
                       \A c \in 1 .. 3 :
                           /\ RowOfIndex(faces[f][c]) \in {i, i + 1}
                           /\ ColOfIndex(faces[f][c]) \in {j, j + 1}

\* a grid of two rows and three columns: the second quad gave the faces
\* (1, 2, 4) and (2, 5, 4)
C26_Witness ==
    /\ TerrainReturned
    /\ TerrainRows = 2
    /\ TerrainCols = 3
    /\ m_result[1].faces[3] = <<1, 2, 4>>
    /\ m_result[1].faces[4] = <<2, 5, 4>>

(***************************************************************************)
(* Further properties of extrude_polygon (SpecMesh)                        *)
(***************************************************************************)
ExtrudeMesh == ExtrudeReturned /\ m_result # None

\* point i (0-based) of the ring of m_polygon
RingPoint(i) == m_polygon[1].coords[i + 1]

\* point i of the ring in metres from point 0, at elevation z
LocalVertex(i, z) ==
    <<(RingPoint(i)[1] - RingPoint(0)[1]) * lon_to_m(m_polygon[1].centroid[2]),
      (RingPoint(i)[2] - RingPoint(0)[2]) * lat_to_m,
      z>>

\* C24: in a returned mesh of a ring of n points, vertex i (0 <= i < n) is
\* ring point i at z = 0 and vertex n + i is the same point at z = height:
\* the ring keeps its order.
C24_RingOrderKept ==
    ExtrudeMesh =>
        \A i \in 0 .. (RingSize - 1) :
            /\ m_result[1].vertices[i + 1] = LocalVertex(i, Float(0))
            /\ m_result[1].vertices[RingSize + i + 1] = LocalVertex(i, m_height)

\* the ring (1,0), (1,60), (0,60) at latitude 60: the second vertex lies
\* north of the first and the third north-west of it
C24_Witness ==
    /\ ExtrudeMesh
    /\ m_polygon[1].coords = closed(<< <<1, 0>>, <<1, 60>>, <<0, 60>> >>)
    /\ m_polygon[1].centroid[2] = 60
    /\ m_height = Float(10)
    /\ m_result[1].vertices[2] = <<0, 60 * lat_to_m, Float(0)>>
    /\ m_result[1].vertices[3] = <<-lon_to_m(60), 60 * lat_to_m, Float(0)>>
    /\ m_result[1].vertices[6] = <<-lon_to_m(60), 60 * lat_to_m, Float(10)>>

\* C25: the faces of a returned mesh of a ring of n points are, in order,
\* for i = 0 .. n-1 the triangles (i, (i+1) mod n, n+i) and
\* ((i+1) mod n, n + (i+1) mod n, n+i), then (0, i, i+1) for i = 1 .. n-2,
\* then (n, n+i+1, n+i) for i = 1 .. n-2, and nothing else.
C25_FaceListInOrder ==
    ExtrudeMesh =>
        LET n == RingSize
            faces == m_result[1].faces
        IN  /\ Len(faces) = 2 * n + 2 * (n - 2)
            /\ \A i \in 0 .. (n - 1) :
                   /\ faces[2 * i + 1] = <<i, (i + 1) % n, n + i>>
                   /\ faces[2 * i + 2] = <<(i + 1) % n, n + ((i + 1) % n), n + i>>
            /\ \A i \in 1 .. (n - 2) :
                   /\ faces[2 * n + i] = <<0, i, i + 1>>
                   /\ faces[2 * n + (n - 2) + i] = <<n, n + i + 1, n + i>>

\* a ring of four points: the last wall face wraps to vertex 0, the bottom
\* fan starts at face 9 and the top fan at face 11
C25_Witness ==
    /\ ExtrudeMesh
    /\ RingSize = 4
    /\ m_result[1].faces[8] = <<0, 4, 7>>
    /\ m_result[1].faces[9] = <<0, 1, 2>>
    /\ m_result[1].faces[11] = <<4, 6, 5>>
    /\ m_result[1].faces[12] = <<4, 7, 6>>

\* shifts in longitude, in degrees
Shifts == {1, 7}

\* the polygon moved east by d degrees
Translated(polygon, d) ==
    Polygon([k \in 1 .. Len(polygon.coords) |->
                <<polygon.coords[k][1] + d, polygon.coords[k][2]>>],
            <<polygon.centroid[1] + d, polygon.centroid[2]>>)

\* C29: in every returned mesh vertex 0 is (0, 0, 0) and vertex n is
\* (0, 0, height), and the footprint moved in longitude alone gives the very
\* same mesh: the mesh holds nothing of the absolute position.
C29_AnchoredAtFirstVertex ==
    ExtrudeMesh =>
        /\ m_result[1].vertices[1] = <<0, 0, Float(0)>>
        /\ m_result[1].vertices[RingSize + 1] = <<0, 0, m_height>>
        /\ \A d \in Shifts :
               extrude_polygon(Some(Translated(m_polygon[1], d)), m_height) = m_result

\* a ring that starts at longitude 1: its mesh starts at (0, 0, 0) and has a
\* vertex west of it
C29_Witness ==
    /\ ExtrudeMesh
    /\ RingSize >= 3
    /\ RingPoint(0) = <<1, 60>>
    /\ m_result[1].vertices[1] = <<0, 0, Float(0)>>
    /\ \E k \in 1 .. RingSize : m_result[1].vertices[k][1] < 0

(***************************************************************************)
(* Identity of the mesh records (SpecBuildings)                            *)
(***************************************************************************)
\* C27: the index labels of the frame being pairwise distinct, the ids of
\* the records of buildings_3d are pairwise distinct at every point of the
\* run, whatever the mix and the order of Polygon and MultiPolygon rows.
C27_RecordIdsDistinct ==
    (\A a, b \in 1 .. Len(buildings_gdf) :
         a # b => buildings_gdf[a].idx # buildings_gdf[b].idx) =>
        \A j, k \in 1 .. Len(buildings_3d) :
            j # k => buildings_3d[j].id # buildings_3d[k].id

\* a MultiPolygon of two parts followed by a Polygon: three records, the
\* third with the id of its row
C27_Witness ==
    /\ pc = "done"
    /\ Len(buildings_gdf) = 2
    /\ IsMulti(1)
    /\ ~IsMulti(2)
    /\ Len(buildings_3d) = 3
    /\ buildings_3d[1].id = "0_0"
    /\ buildings_3d[2].id = "0_1"
    /\ buildings_3d[3].id = "1"

(***************************************************************************)
(* The override pass on a record without a name (SpecOverride)             *)
(***************************************************************************)
\* C28: a row whose display name is null or the empty string leaves the
\* override pass exactly as it entered it.
C28_UnnamedUntouched ==
    (o_pc = "returned" /\ o_row.display_name \in {None, Some(NameEmpty)}) =>
        o_out = o_row

(***************************************************************************)
(* run_data_pipeline.py: run_script (lines 12-30) and main (lines 33-53).  *)
(*                                                                         *)
(* The outcome of subprocess.run is [returncode, stdout, stderr]; with     *)
(* check=True a returncode other than 0 raises CalledProcessError.  What   *)
(* is printed is a sequence of messages, each a sequence of strings.       *)
(***************************************************************************)
\* lines 36-41
steps ==
    << [script |-> "data_acquisition/fetch_overture_buildings.py",
        description |-> "Fetching 3D buildings from Overture Maps"],
       [script |-> "data_acquisition/fetch_osmnx_trees.py",
        description |-> "Fetching trees from OpenStreetMap"] >>

ExitCodes == {0, 1, 2}

Outputs == {"", "text"}

ProcessResults == [returncode : ExitCodes, stdout : Outputs, stderr : Outputs]

\* run_script with the except branch returning True as well
run_script_true(description, result) ==
    IF result.returncode = 0
    THEN [value |-> TRUE,
          printed |-> << <<"banner", description>>, <<"stdout", result.stdout>> >>
                      \o (IF result.stderr # ""
                          THEN << <<"Warnings:", result.stderr>> >>
                          ELSE <<>>)]
    ELSE [value |-> TRUE,
          printed |-> << <<"banner", description>>,
                         <<"FAILED:", result.stdout, result.stderr>> >>]

\* lines 12-30: the value returned and the messages printed, given the
\* outcome of the subprocess
run_script(description, result) ==
    IF result.returncode = 0
    THEN [value |-> TRUE,
          printed |-> << <<"banner", description>>, <<"stdout", result.stdout>> >>
                      \o (IF result.stderr # ""
                          THEN << <<"Warnings:", result.stderr>> >>
                          ELSE <<>>)]
    ELSE [value |-> FALSE,
          printed |-> << <<"banner", description>>,
                         <<"FAILED:", result.stdout, result.stderr>> >>]

\* lines 48-53: the summary, given the counter
summary(ok) ==
    [ok |-> ok,
     total |-> Len(steps),
     message |-> IF ok = Len(steps) THEN "Data ready!" ELSE "Some steps failed"]

(***************************************************************************)
(* The pipeline specification: one run of main, one action per iteration   *)
(* of its loop, the scripts exiting with any of the codes                  *)
(***************************************************************************)
PipelineInit ==
    /\ p_step = 1
    /\ p_ok = 0
    /\ p_runs = <<>>
    /\ p_log = <<>>
    /\ p_report = None
    /\ p_pc = "loop"
    /\ MeshIdle
    /\ BuildingsIdle
    /\ OverrideIdle
    /\ ReconcileIdle
    /\ NameIdle

\* lines 44-46: one iteration of the loop
RunStep ==
    /\ p_pc = "loop"
    /\ p_step <= Len(steps)
    /\ \E result \in ProcessResults :
           LET r == run_script(steps[p_step].description, result)
           IN  /\ p_runs' = Append(p_runs, [script |-> steps[p_step].script,
                                            returncode |-> result.returncode])
               /\ p_log' = p_log \o r.printed
               /\ p_ok' = IF r.value THEN p_ok + 1 ELSE p_ok
    /\ p_step' = p_step + 1
    /\ UNCHANGED <<p_report, p_pc, mesh_vars, bld_vars, ovr_vars, rec_vars, name_vars>>

\* lines 48-53: the loop is over
Report ==
    /\ p_pc = "loop"
    /\ p_step > Len(steps)
    /\ p_report' = Some(summary(p_ok))
    /\ p_log' = Append(p_log, <<"Pipeline:", summary(p_ok).message>>)
    /\ p_pc' = "done"
    /\ UNCHANGED <<p_step, p_ok, p_runs, mesh_vars, bld_vars, ovr_vars, rec_vars,
                   name_vars>>

PipelineNext == RunStep \/ Report

SpecPipeline == PipelineInit /\ [][PipelineNext]_vars

(***************************************************************************)
(* Properties of the pipeline runner (SpecPipeline)                        *)
(***************************************************************************)
Succeeded == {k \in 1 .. Len(p_runs) : p_runs[k].returncode = 0}

\* C30: main runs the scripts of steps in list order, each once, whatever
\* the earlier scripts exited with; the counter is the number of scripts that
\* exited with 0; the summary comes after every step has run, carries that
\* count, and says "Data ready!" only when every script exited with 0.
C30_EveryStepOnceInOrder ==
    /\ Len(p_runs) <= Len(steps)
    /\ \A k \in 1 .. Len(p_runs) : p_runs[k].script = steps[k].script
    /\ p_pc = "loop" => (Len(p_runs) = p_step - 1 /\ p_ok = Cardinality(Succeeded))
    /\ p_pc = "done" =>
           /\ Len(p_runs) = Len(steps)
           /\ p_report # None
           /\ p_report[1].ok = Cardinality(Succeeded)
           /\ p_report[1].message = "Data ready!" <=>
                  Cardinality(Succeeded) = Len(steps)

\* the first script failed, the second ran all the same and succeeded: one
\* step of two counted, no "Data ready!"
C30_Witness ==
    /\ p_pc = "done"
    /\ p_runs = << [script |-> steps[1].script, returncode |-> 2],
                   [script |-> steps[2].script, returncode |-> 0] >>
    /\ p_report = Some([ok |-> 1, total |-> 2, message |-> "Some steps failed"])

====
